---- MODULE Spec2Model ----
(***************************************************************************)
(* A model of the Lattice-Boltzmann solver and particle tracker of         *)
(* src/LBM.py (class LBM) and of the boundary handlers that                *)
(* src/experiments.py plugs into it.                                       *)
(*                                                                         *)
(* Real numbers (numpy float64 in the source) are exact rationals <<n, d>> *)
(* in lowest terms with d > 0; <<0, 0>> stands for a non-finite float      *)
(* (nan, +-inf), which every arithmetic operation propagates and every     *)
(* comparison answers FALSE for, as IEEE comparisons with nan do.          *)
(***************************************************************************)
EXTENDS Integers, Sequences, FiniteSets, TLC

(* ------------------------------ rationals ------------------------------ *)

Abs(n) == IF n < 0 THEN -n ELSE n

RECURSIVE Gcd(_, _)
Gcd(a, b) == IF b = 0 THEN a ELSE Gcd(b, a % b)

NaN == <<0, 0>>

IsNaN(q) == q[2] = 0

\* n/d with the common factor g taken out and the sign carried by n
Reduce(n, d, g) ==
    IF d < 0 THEN <<-(n \div g), -(d \div g)>> ELSE <<n \div g, d \div g>>

Norm(n, d) == IF d = 0 THEN NaN ELSE Reduce(n, d, Gcd(Abs(n), Abs(d)))

R(n) == <<n, 1>>

\* p + q over the least common denominator, g = gcd of the denominators
AddOver(p, q, g) ==
    Norm(p[1] * (q[2] \div g) + q[1] * (p[2] \div g), (p[2] \div g) * q[2])

Add(p, q) ==
    IF IsNaN(p) \/ IsNaN(q) THEN NaN ELSE AddOver(p, q, Gcd(p[2], q[2]))

Neg(p) == IF IsNaN(p) THEN NaN ELSE <<-p[1], p[2]>>

Sub(p, q) == Add(p, Neg(q))

\* p * q with the cross factors g1 = gcd(p[1], q[2]), g2 = gcd(q[1], p[2])
\* cancelled first
MulOver(p, q, g1, g2) ==
    <<(p[1] \div g1) * (q[1] \div g2), (p[2] \div g2) * (q[2] \div g1)>>

Mul(p, q) ==
    IF IsNaN(p) \/ IsNaN(q) THEN NaN
    ELSE MulOver(p, q, Gcd(Abs(p[1]), q[2]), Gcd(Abs(q[1]), p[2]))

Inv(p) == IF IsNaN(p) \/ p[1] = 0 THEN NaN ELSE Norm(p[2], p[1])

Div(p, q) == Mul(p, Inv(q))

\* p < q, FALSE when either is non-finite
LessOver(p, q, g) == p[1] * (q[2] \div g) < q[1] * (p[2] \div g)

Less(p, q) == ~IsNaN(p) /\ ~IsNaN(q) /\ LessOver(p, q, Gcd(p[2], q[2]))

\* p >= q, FALSE when either is non-finite
Geq(p, q) == ~IsNaN(p) /\ ~IsNaN(q) /\ ~Less(p, q)

\* Python's max(a, b) and min(a, b): the first argument unless the second
\* compares strictly greater (smaller)
PyMax(a, b) == IF Less(a, b) THEN b ELSE a

PyMin(a, b) == IF Less(b, a) THEN b ELSE a

\* int(x): truncation towards zero
PyInt(q) == IF q[1] >= 0 THEN q[1] \div q[2] ELSE -((-q[1]) \div q[2])

\* round(x): to the nearest integer, halves to the even neighbour
PyRound(q) ==
    LET fl  == q[1] \div q[2]
        rem == 2 * (q[1] - fl * q[2])
    IN  IF rem < q[2] THEN fl
        ELSE IF rem > q[2] THEN fl + 1
        ELSE IF fl % 2 = 0 THEN fl ELSE fl + 1

(* ------------------------------- lattice ------------------------------- *)

\* number of animate() calls of one run (1000 in the source)
ITERATIONS == 5

\* LBM(size=...): the grid is size x size (100 in the source)
size == 3

Q == 9

Dirs == 0 .. (Q - 1)

\* c[i] = (cx(i), cy(i))
cx(i) == <<0, 1, 0, -1, 0, 1, -1, -1, 1>>[i + 1]

cy(i) == <<0, 0, 1, 0, -1, 1, 1, -1, -1>>[i + 1]

w(i) == IF i = 0 THEN <<4, 9>> ELSE IF i <= 4 THEN <<1, 9>> ELSE <<1, 36>>

cssq == <<1, 3>>

width == size

height == size

Cells == (0 .. (width - 1)) \X (0 .. (height - 1))

\* sum of g[0..8]
SumQ(g) ==
    Add(g[0], Add(g[1], Add(g[2], Add(g[3], Add(g[4],
        Add(g[5], Add(g[6], Add(g[7], g[8]))))))))

\* LBM.moment_update, one cell: density and the two velocity components
CellRho(fc) == SumQ(fc)

CellUx(fc) == Div(SumQ([i \in Dirs |-> Mul(R(cx(i)), fc[i])]), CellRho(fc))

CellUy(fc) == Div(SumQ([i \in Dirs |-> Mul(R(cy(i)), fc[i])]), CellRho(fc))

\* EquilibriumPop without the term - udotu / (2 * cssq)
EquilibriumPop_no_udotu(i, r, udotc, udotu) ==
    Mul(Mul(w(i), r),
        Add(Add(R(1), Div(udotc, cssq)),
            Div(Mul(udotc, udotc), Mul(R(2), Mul(cssq, cssq)))))

\* LBM.get_equilibrium: population i of a cell of density r, given
\* udotc = u . c[i] and udotu = u . u
EquilibriumPop(i, r, udotc, udotu) ==
    Mul(Mul(w(i), r),
        Sub(Add(Add(R(1), Div(udotc, cssq)),
                Div(Mul(udotc, udotc), Mul(R(2), Mul(cssq, cssq)))),
            Div(udotu, Mul(R(2), cssq))))

EquilibriumWith(r, u, v, udotu) ==
    [i \in Dirs |->
        EquilibriumPop(i, r, Add(Mul(u, R(cx(i))), Mul(v, R(cy(i)))), udotu)]

\* LBM.get_equilibrium, one cell: the 9 equilibrium populations
get_equilibrium(r, u, v) == EquilibriumWith(r, u, v, Add(Mul(u, u), Mul(v, v)))

(* ---------------------------- configuration ---------------------------- *)

\* spawn cadence and batch size set by LBM.__init__ (20 and 1 in the source)
spawn_rate == 2

spawn_amount_at_rate == 1

num_particles == (ITERATIONS \div spawn_rate) * spawn_amount_at_rate

\* the hard-coded reference points of the susceptible zones, on the small grid
susceptible_centroids == <<<<0, 2>>, <<2, 2>>, <<2, 0>>>>

NUM_SUSCEP_CENTROIDS == Len(susceptible_centroids)

\* opp with the diagonals mirrored in the x axis instead of reversed
opp_mirrored(i) == <<0, 3, 4, 1, 2, 8, 7, 6, 5>>[i + 1]

\* the opposite-direction permutation used by the bounce-back
opp(i) == <<0, 3, 4, 1, 2, 7, 8, 5, 6>>[i + 1]

\* The mask grids read_map_from_file returns, as sets of marked cells.  The
\* masks come from the map loader and need not be mutually exclusive: the
\* last map has an inlet cell that is a wall cell and one that is an outlet
\* cell.
Maps ==
    [wall        : {{}, {<<1, 0>>}},
     inlet       : {{}, {<<0, 1>>}},
     outlet      : {{}, {<<1, 1>>}},
     infected    : {{<<1, 1>>}},
     susceptible : {{}, {<<1, 1>>}}]
    \cup
    {[wall        |-> {<<0, 1>>},
      inlet       |-> {<<0, 1>>, <<1, 2>>},
      outlet      |-> {<<1, 2>>},
      infected    |-> {<<1, 1>>},
      susceptible |-> {}]}

\* map_scaling_factor = self.width / (width of the map file)
MapWidths == {width, 2 * width}

\* the handlers a caller can plug in, with the number of positional
\* parameters each one declares
OutletHandlers == {"LBM.outlet_handler", "experiment2.outlet_handler"}

Arity(h) ==
    CASE h = "LBM.inlet_handler"          -> 2
      [] h = "LBM.outlet_handler"         -> 1
      [] h = "experiment2.outlet_handler" -> 2

\* experiment2: the vents are open during the first half of every period
period_length == 4

\* the exception that ended the run, with the array position it reports
NoLoc == <<<<-1, -1>>, -1>>

NoError == [type |-> "none", at |-> NoLoc]

(* -------------------------------- state -------------------------------- *)

VARIABLES
    pc,                 \* the phase the run is about to execute
    it,                 \* the iteration index passed to animate
    error,              \* "none", or the exception that ended the run
    wall, inlet, outlet, infected, susceptible,
    map_scaling_factor,
    particles,          \* whether particles are simulated
    outlet_handler,     \* the outlet strategy plugged in
    nodes,              \* the table susceptible_centroids the module holds
    call,               \* the latest handler invocation: callee and arguments
    tau, u_lb,
    f, rho, ux, uy,
    f_eq,               \* the local f_eq of lbm_iteration
    particle_nr, particle_locations, infections, removed, particles_exited

masks == <<wall, inlet, outlet, infected, susceptible>>

config == <<map_scaling_factor, particles, outlet_handler, nodes, tau, u_lb>>

fluid == <<f, rho, ux, uy, f_eq>>

tracker == <<particle_nr, particle_locations, infections, removed, particles_exited>>

vars == <<pc, it, error, masks, config, call, fluid, tracker>>

(* ---------------------------- initialisation ---------------------------- *)

\* LBM.init_default: the lattice velocity scale
init_default_u_lb ==
    LET total_time == Mul(Div(Mul(R(ITERATIONS), <<5, 2>>), R(500)), R(60))
        u_p        == R(1)
        L_p        == R(1)
        dt         == Div(total_time, R(ITERATIONS))
        dx         == Div(L_p, R(width))
    IN  Mul(u_p, Div(dt, dx))

\* LBM.init_default: the relaxation time
init_default_tau ==
    LET L_p   == R(1)
        nu_p  == <<37, 2500000>>
        u_p   == R(1)
        dx    == Div(L_p, R(width))
        Re    == Div(Mul(u_p, L_p), nu_p)
        L_lb  == Div(L_p, dx)
        nu_lb == Div(Mul(init_default_u_lb, L_lb), Re)
    IN  Add(Div(nu_lb, cssq), <<1, 2>>)

\* the fluid at rest: rho = 1, ux = uy = 0, f = its equilibrium
RestFluid ==
    /\ rho = [cell \in Cells |-> R(1)]
    /\ ux = [cell \in Cells |-> R(0)]
    /\ uy = [cell \in Cells |-> R(0)]
    /\ f = [cell \in Cells |-> get_equilibrium(R(1), R(0), R(0))]
    /\ f_eq = f

\* the particle attributes do not exist before render creates them
NoTracker ==
    /\ particle_nr = 0
    /\ particle_locations = [i \in {} |-> 0]
    /\ infections = [k \in {} |-> 0]
    /\ removed = [i \in {} |-> 0]
    /\ particles_exited = {}

\* read_map_from_file: the five masks of map m
LoadMap(m) ==
    /\ wall = m.wall
    /\ inlet = m.inlet
    /\ outlet = m.outlet
    /\ infected = m.infected
    /\ susceptible = m.susceptible

\* the state LBM.__init__ leaves, for any map and any plugged outlet handler
Init ==
    /\ pc = "render"
    /\ it = 0
    /\ error = NoError
    /\ \E m \in Maps : LoadMap(m)
    /\ map_scaling_factor = R(1)
    /\ particles \in BOOLEAN
    /\ outlet_handler \in OutletHandlers
    /\ nodes = susceptible_centroids
    /\ call = [fn |-> "none", args |-> <<>>]
    /\ u_lb = init_default_u_lb
    /\ tau = init_default_tau
    /\ RestFluid
    /\ NoTracker

(* -------------------------------- render -------------------------------- *)

\* LBM.render up to its loop over animate: the particle arrays are created
render ==
    /\ pc = "render"
    /\ pc' = IF ITERATIONS > 0 THEN "moment_update" ELSE "done"
    /\ IF particles
       THEN /\ particle_locations' = [i \in 0 .. (num_particles - 1) |-> <<R(0), R(0)>>]
            /\ infections' = [k \in 0 .. (Len(nodes) - 1) |->
                                 [i \in 0 .. (ITERATIONS - 1) |-> 0]]
            /\ removed' = [i \in 0 .. (ITERATIONS - 1) |-> 0]
            /\ particles_exited' = {}
       ELSE UNCHANGED <<particle_locations, infections, removed, particles_exited>>
    /\ UNCHANGED <<it, error, masks, config, call, fluid, particle_nr>>

(* ---------------------------- lbm_iteration ---------------------------- *)

\* "moment update": rho, ux, uy are recomputed from f
moment_update ==
    /\ pc = "moment_update"
    /\ rho' = [cell \in Cells |-> CellRho(f[cell])]
    /\ ux' = [cell \in Cells |-> CellUx(f[cell])]
    /\ uy' = [cell \in Cells |-> CellUy(f[cell])]
    /\ pc' = "equilibrium"
    /\ UNCHANGED <<it, error, masks, config, call, f, f_eq, tracker>>

Locs == Cells \X Dirs

\* position of f_eq[x, y, i] in the flattened array
Flat(loc) == (loc[1][1] * height + loc[1][2]) * Q + loc[2]

\* np.min(f_eq) >= 0: every entry is finite and non-negative
Stable(feq) == \A loc \in Locs : Geq(feq[loc[1]][loc[2]], R(0))

\* the positions of the smallest entries, of the nans if there are any
MinLocs(feq) ==
    IF \E l \in Locs : IsNaN(feq[l[1]][l[2]])
    THEN {loc \in Locs : IsNaN(feq[loc[1]][loc[2]])}
    ELSE {loc \in Locs : \A l \in Locs : ~Less(feq[l[1]][l[2]], feq[loc[1]][loc[2]])}

FirstOf(S) == CHOOSE loc \in S : \A l \in S : Flat(loc) <= Flat(l)

\* ArgMin with argmax in place of argmin
ArgMin_argmax(feq) ==
    FirstOf({loc \in Locs : \A l \in Locs : ~Less(feq[loc[1]][loc[2]], feq[l[1]][l[2]])})

\* np.unravel_index(np.argmin(f_eq), f_eq.shape): the first smallest entry
ArgMin(feq) == FirstOf(MinLocs(feq))

\* "equilibrium" and the stability assertion that follows it
equilibrium ==
    /\ pc = "equilibrium"
    /\ f_eq' = [cell \in Cells |-> get_equilibrium(rho[cell], ux[cell], uy[cell])]
    /\ IF Stable(f_eq')
       THEN /\ pc' = "collision"
            /\ error' = error
       ELSE /\ pc' = "aborted"
            /\ error' = [type |-> "AssertionError", at |-> ArgMin(f_eq')]
    /\ UNCHANGED <<it, masks, config, call, f, rho, ux, uy, tracker>>

\* f * (1 - 1/tau) + (1/tau) * f_eq, one population
Relax(fi, feqi, t) ==
    Add(Mul(fi, Sub(R(1), Div(R(1), t))), Mul(Div(R(1), t), feqi))

\* "collision"
collision ==
    /\ pc = "collision"
    /\ f' = [cell \in Cells |-> [i \in Dirs |-> Relax(f[cell][i], f_eq[cell][i], tau)]]
    /\ pc' = "streaming"
    /\ UNCHANGED <<it, error, masks, config, call, rho, ux, uy, f_eq, tracker>>

\* np.roll(f[:, :, i], c[i], axis=(0, 1)): the cell whose population i lands
\* on cell, with wrap-around
Upstream(cell, i) ==
    <<(cell[1] - cx(i)) % width, (cell[2] - cy(i)) % height>>

\* "streaming"
streaming ==
    /\ pc = "streaming"
    /\ f' = [cell \in Cells |-> [i \in Dirs |-> f[Upstream(cell, i)][i]]]
    /\ pc' = "bounce_back"
    /\ UNCHANGED <<it, error, masks, config, call, rho, ux, uy, f_eq, tracker>>

\* boundary_f[:, [0, 3, 4, 1, 2, 7, 8, 5, 6]]
Reflect(fc) == [i \in Dirs |-> fc[opp(i)]]

\* "bounce back"
bounce_back ==
    /\ pc = "bounce_back"
    /\ ux' = [cell \in Cells |-> IF cell \in wall THEN R(0) ELSE ux[cell]]
    /\ uy' = [cell \in Cells |-> IF cell \in wall THEN R(0) ELSE uy[cell]]
    /\ f' = [cell \in Cells |-> IF cell \in wall THEN Reflect(f[cell]) ELSE f[cell]]
    /\ pc' = "inlet_handler"
    /\ UNCHANGED <<it, error, masks, config, call, rho, f_eq, tracker>>

\* the arguments lbm_iteration passes to the two handlers
inlet_call_args == <<"self", it>>

outlet_call_args == <<"self">>

\* LBM_inlet_handler that leaves the wall cells to the bounce-back
LBM_inlet_handler_spares_walls ==
    [cell \in Cells |->
        IF cell \in inlet \ wall THEN get_equilibrium(R(1), u_lb, R(0)) ELSE f[cell]]

\* LBM.inlet_handler(model, it)
LBM_inlet_handler ==
    [cell \in Cells |->
        IF cell \in inlet THEN get_equilibrium(R(1), u_lb, R(0)) ELSE f[cell]]

\* self.inlet_handler(self, it)
inlet_step ==
    /\ pc = "inlet_handler"
    /\ call' = [fn |-> "inlet_handler", args |-> inlet_call_args]
    /\ IF Len(inlet_call_args) = Arity("LBM.inlet_handler")
       THEN /\ f' = LBM_inlet_handler
            /\ pc' = "outlet_handler"
            /\ error' = error
       ELSE /\ f' = f
            /\ pc' = "aborted"
            /\ error' = [type |-> "TypeError", at |-> NoLoc]
    /\ UNCHANGED <<it, masks, config, rho, ux, uy, f_eq, tracker>>

\* LBM.outlet_handler(model): the new f, ux, uy
LBM_outlet_handler ==
    [f  |-> [cell \in Cells |->
                IF cell \in outlet
                THEN get_equilibrium(rho[cell], ux[cell], uy[cell])
                ELSE f[cell]],
     ux |-> ux,
     uy |-> uy]

\* experiment2's outlet_handler(model, it): the new f, ux, uy
experiment2_outlet_handler(i) ==
    IF 2 * (i % period_length) < period_length
    THEN [f  |-> [cell \in Cells |->
                     IF cell \in outlet
                     THEN get_equilibrium(<<4, 5>>, ux[cell], uy[cell])
                     ELSE f[cell]],
          ux |-> ux,
          uy |-> uy]
    ELSE [f  |-> [cell \in Cells |->
                     IF cell \in outlet THEN Reflect(f[cell]) ELSE f[cell]],
          ux |-> [cell \in Cells |-> IF cell \in outlet THEN R(0) ELSE ux[cell]],
          uy |-> [cell \in Cells |-> IF cell \in outlet THEN R(0) ELSE uy[cell]]]

\* the body of the plugged outlet handler, called with args
OutletBody(args) ==
    IF outlet_handler = "LBM.outlet_handler"
    THEN LBM_outlet_handler
    ELSE experiment2_outlet_handler(args[2])

\* self.outlet_handler(self)
outlet_step ==
    /\ pc = "outlet_handler"
    /\ call' = [fn |-> "outlet_handler", args |-> outlet_call_args]
    /\ IF Len(outlet_call_args) = Arity(outlet_handler)
       THEN /\ f' = OutletBody(outlet_call_args).f
            /\ ux' = OutletBody(outlet_call_args).ux
            /\ uy' = OutletBody(outlet_call_args).uy
            /\ pc' = "update_particles"
            /\ error' = error
       ELSE /\ UNCHANGED <<f, ux, uy>>
            /\ pc' = "aborted"
            /\ error' = [type |-> "TypeError", at |-> NoLoc]
    /\ UNCHANGED <<it, masks, config, rho, f_eq, tracker>>

(* --------------------------- update_particles --------------------------- *)

\* -floor(-q)
Ceil(q) == -((-q[1]) \div q[2])

\* RegularGridInterpolator over (arange(width), arange(height)): the lower
\* corner of the grid interval used for coordinate q along an axis of n points
LowerIndex(q, n) ==
    LET k == Ceil(q) - 1
    IN  IF k < 0 THEN 0 ELSE IF k > n - 2 THEN n - 2 ELSE k

\* linear interpolation of field at the point (x, y)
Interp(field, x, y) ==
    LET i0 == LowerIndex(x, width)
        j0 == LowerIndex(y, height)
        tx == Sub(x, R(i0))
        ty == Sub(y, R(j0))
        sx == Sub(R(1), tx)
        sy == Sub(R(1), ty)
    IN  Add(Add(Mul(Mul(sx, sy), field[<<i0, j0>>]),
                Mul(Mul(tx, sy), field[<<i0 + 1, j0>>])),
            Add(Mul(Mul(sx, ty), field[<<i0, j0 + 1>>]),
                Mul(Mul(tx, ty), field[<<i0 + 1, j0 + 1>>])))

\* the cell int(round(x)), int(round(y)) whose masks are looked up
RoundedCell(loc) == <<PyRound(loc[1]), PyRound(loc[2])>>

\* Advect without the min / max that keep the particle inside the boundaries
Advect_unclamped(loc) ==
    LET speed_factor == map_scaling_factor
        dx == Mul(speed_factor, Interp(ux, loc[1], loc[2]))
        dy == Mul(speed_factor, Interp(uy, loc[1], loc[2]))
    IN  <<Add(loc[1], dx), Add(loc[2], dy)>>

\* the else branch: the position advected by the interpolated velocity and
\* kept inside the boundaries
Advect(loc) ==
    LET speed_factor == map_scaling_factor
        dx == Mul(speed_factor, Interp(ux, loc[1], loc[2]))
        dy == Mul(speed_factor, Interp(uy, loc[1], loc[2]))
    IN  <<PyMin(PyMax(R(0), Add(loc[1], dx)), R(width - 1)),
          PyMin(PyMax(R(0), Add(loc[2], dy)), R(height - 1))>>

\* "FIND CLOSEST NODE": squared distance of centroid k to int(x), int(y)
Dist2(loc, k) ==
    LET nx == PyInt(loc[1])
        ny == PyInt(loc[2])
        cn == nodes[k + 1]
    IN  (cn[1] - nx) * (cn[1] - nx) + (cn[2] - ny) * (cn[2] - ny)

\* np.argmin(dist_2): the first centroid at the smallest distance
Closest(loc) ==
    CHOOSE k \in 0 .. (Len(nodes) - 1) :
        /\ \A j \in 0 .. (Len(nodes) - 1) : Dist2(loc, k) <= Dist2(loc, j)
        /\ \A j \in 0 .. (k - 1) : Dist2(loc, j) > Dist2(loc, k)

\* the try block completes: argmin has something to pick from and
\* infections[closest][i] exists; otherwise the except clause swallows it
Attributable(i) == Len(nodes) > 0 /\ i < ITERATIONS

\* Spawn without the particle_nr += 1 that follows the placement
RECURSIVE Spawn_no_increment(_, _, _, _)
Spawn_no_increment(locs, nr, picks, j) ==
    IF j > spawn_amount_at_rate THEN <<locs, nr>>
    ELSE IF nr < num_particles
         THEN Spawn_no_increment(
                  [locs EXCEPT ![nr] = <<R(picks[j][1]), R(picks[j][2])>>],
                  nr, picks, j + 1)
         ELSE Spawn_no_increment(locs, nr, picks, j + 1)

\* the spawn loop: picks[j] is the infected cell np.random draws for the
\* j-th particle of the batch; the result is <<particle_locations, particle_nr>>
RECURSIVE Spawn(_, _, _, _)
Spawn(locs, nr, picks, j) ==
    IF j > spawn_amount_at_rate THEN <<locs, nr>>
    ELSE IF nr < num_particles
         THEN Spawn([locs EXCEPT ![nr] = <<R(picks[j][1]), R(picks[j][2])>>],
                    nr + 1, picks, j + 1)
         ELSE Spawn(locs, nr, picks, j + 1)

\* whether this call draws from the infected cells at all
Spawning(i) == i % spawn_rate = 0 /\ particle_nr < num_particles /\ spawn_amount_at_rate > 0

\* Outcome without the test for particles_exited
Outcome_no_skip(i, loc) ==
    IF RoundedCell(loc) \in susceptible THEN "intercepted"
    ELSE IF RoundedCell(loc) \in outlet THEN "exited"
    ELSE "advected"

\* Outcome with the outlet mask tested before the susceptible mask
Outcome_outlet_first(i, loc) ==
    IF i \in particles_exited THEN "skipped"
    ELSE IF RoundedCell(loc) \in outlet THEN "exited"
    ELSE IF RoundedCell(loc) \in susceptible THEN "intercepted"
    ELSE "advected"

\* what the loop over the particles does to particle i at position loc
Outcome(i, loc) ==
    IF i \in particles_exited THEN "skipped"
    ELSE IF RoundedCell(loc) \in susceptible THEN "intercepted"
    ELSE IF RoundedCell(loc) \in outlet THEN "exited"
    ELSE "advected"

\* NewLocation without the reset of a terminal particle to [0, 0]
NewLocation_frozen(i, loc) ==
    IF Outcome(i, loc) = "advected" THEN Advect(loc) ELSE loc

\* the position the loop leaves particle i with
NewLocation(i, loc) ==
    CASE Outcome(i, loc) = "skipped"     -> loc
      [] Outcome(i, loc) = "intercepted" -> <<R(0), R(0)>>
      [] Outcome(i, loc) = "exited"      -> <<R(0), R(0)>>
      [] Outcome(i, loc) = "advected"    -> Advect(loc)

\* Terminates without the particles_exited.add(i) of the outlet branch
Terminates_intercepted_only(o) == o = "intercepted"

\* the outcomes that end with particles_exited.add(i)
Terminates(o) == o \in {"intercepted", "exited"}

\* LBM.update_particles(it), given the cells np.random draws
update_particles(i, picks) ==
    LET spawned == IF i % spawn_rate = 0
                   THEN Spawn(particle_locations, particle_nr, picks, 1)
                   ELSE <<particle_locations, particle_nr>>
        locs    == spawned[1]
        nr      == spawned[2]
        live    == 0 .. (nr - 1)
    IN  /\ particle_nr' = nr
        /\ particle_locations' =
               [p \in DOMAIN locs |->
                   IF p \in live THEN NewLocation(p, locs[p]) ELSE locs[p]]
        /\ infections' =
               [k \in DOMAIN infections |-> [p \in DOMAIN infections[k] |->
                   IF /\ p \in live
                      /\ Outcome(p, locs[p]) = "intercepted"
                      /\ Attributable(p)
                      /\ k = Closest(locs[p])
                   THEN infections[k][p] + 1
                   ELSE infections[k][p]]]
        /\ removed' =
               [p \in DOMAIN removed |->
                   IF p \in live /\ Outcome(p, locs[p]) = "exited"
                   THEN removed[p] + 1
                   ELSE removed[p]]
        /\ particles_exited' =
               particles_exited \cup
                   {p \in live : Terminates(Outcome(p, locs[p]))}

\* the rest of LBM.animate after lbm_iteration, and the step of render's loop
\* to the next iteration
animate ==
    /\ pc = "update_particles"
    /\ IF ~particles
       THEN /\ UNCHANGED tracker
            /\ pc' = IF it + 1 < ITERATIONS THEN "moment_update" ELSE "done"
            /\ it' = it + 1
            /\ error' = error
       ELSE IF Spawning(it) /\ infected = {}
       THEN \* np.random.randint(0) raises
            /\ UNCHANGED tracker
            /\ pc' = "aborted"
            /\ it' = it
            /\ error' = [type |-> "ValueError", at |-> NoLoc]
       ELSE /\ \E picks \in [1 .. spawn_amount_at_rate -> infected] :
                 update_particles(it, picks)
            /\ pc' = IF it + 1 < ITERATIONS THEN "moment_update" ELSE "done"
            /\ it' = it + 1
            /\ error' = error
    /\ UNCHANGED <<masks, config, call, fluid>>

(* ----------------------------- specification ----------------------------- *)

lbm_iteration ==
    \/ moment_update
    \/ equilibrium
    \/ collision
    \/ streaming
    \/ bounce_back
    \/ inlet_step
    \/ outlet_step

Next ==
    \/ render
    \/ lbm_iteration
    \/ animate

Spec == Init /\ [][Next]_vars

(* ------------------- one iteration from any distribution ------------------- *)

\* Populations of one cell, as multiples of 1/36: the fluid at rest, a flow
\* along +x, a flow too fast for a non-negative equilibrium, a diagonal flow
Profiles ==
    {<<16, 4, 4, 4, 4, 1, 1, 1, 1>>,
     <<16, 8, 4, 2, 4, 2, 1, 1, 2>>,
     <<2, 20, 1, 0, 1, 6, 0, 0, 6>>,
     <<12, 3, 9, 5, 1, 3, 2, 0, 1>>}

Populations(p) == [i \in Dirs |-> Norm(p[i + 1], 36)]

Backgrounds ==
    {<<16, 4, 4, 4, 4, 1, 1, 1, 1>>,
     <<16, 8, 4, 2, 4, 2, 1, 1, 2>>}

HotCells == {<<1, 1>>}

\* any wall mask without inlet and outlet cells, and maps with both
LatticeMaps ==
    [wall        : {{}, {<<1, 0>>}, {<<0, 0>>, <<1, 1>>}},
     inlet       : {{}},
     outlet      : {{}},
     infected    : {{<<1, 1>>}},
     susceptible : {{}}]
    \cup
    [wall        : {{}, {<<1, 0>>}},
     inlet       : {{<<0, 1>>}},
     outlet      : {{<<1, 2>>}},
     infected    : {{<<1, 1>>}},
     susceptible : {{}}]

\* relaxation times the initialisers can yield: any value above 1/2
RelaxationTimes == {<<3, 5>>, <<1, 1>>, <<2, 1>>}

\* inlet velocities
InletVelocities == {<<1, 3>>}

\* The solver about to run the last iteration of a run, the distribution
\* being any of a family of non-equilibrium fields: one profile everywhere
\* except at one cell, which holds another
InitLattice ==
    /\ pc = "moment_update"
    /\ it = ITERATIONS - 1
    /\ error = NoError
    /\ \E m \in LatticeMaps : LoadMap(m)
    /\ map_scaling_factor = R(1)
    /\ particles = FALSE
    /\ outlet_handler = "LBM.outlet_handler"
    /\ nodes = susceptible_centroids
    /\ call = [fn |-> "none", args |-> <<>>]
    /\ u_lb \in InletVelocities
    /\ tau \in RelaxationTimes
    /\ \E bg \in Backgrounds, hot \in Profiles, at \in HotCells :
          f = [cell \in Cells |-> Populations(IF cell = at THEN hot ELSE bg)]
    /\ rho = [cell \in Cells |-> CellRho(f[cell])]
    /\ ux = [cell \in Cells |-> CellUx(f[cell])]
    /\ uy = [cell \in Cells |-> CellUy(f[cell])]
    /\ f_eq = f
    /\ NoTracker

NextLattice ==
    \/ lbm_iteration
    \/ animate

SpecLattice == InitLattice /\ [][NextLattice]_vars

(* --------------------- the tracker in any velocity field --------------------- *)

ParticleMaps ==
    [wall        : {{}},
     inlet       : {{}},
     outlet      : {{<<2, 1>>}, {<<1, 1>>}},
     infected    : {{<<1, 1>>}, {<<0, 0>>, <<1, 1>>}},
     susceptible : {{<<1, 1>>}, {<<1, 2>>, <<2, 2>>}}]

\* velocity fields ux = a + k * y, uy = b, as <<a, b, k>>
Fields ==
    {<<<<0, 1>>, <<0, 1>>, 0>>,
     <<<<1, 2>>, <<0, 1>>, 0>>,
     <<<<0, 1>>, <<1, 2>>, 0>>,
     <<<<-3, 2>>, <<-1, 2>>, 0>>,
     <<<<1, 2>>, <<1, 1>>, 1>>}

InitParticles ==
    /\ pc = "render"
    /\ it = 0
    /\ error = NoError
    /\ \E m \in ParticleMaps : LoadMap(m)
    /\ \E mw \in MapWidths : map_scaling_factor = Div(R(width), R(mw))
    /\ particles = TRUE
    /\ outlet_handler = "LBM.outlet_handler"
    /\ nodes = susceptible_centroids
    /\ call = [fn |-> "none", args |-> <<>>]
    /\ u_lb = init_default_u_lb
    /\ tau = init_default_tau
    /\ RestFluid
    /\ NoTracker

\* lbm_iteration seen from the tracker: it leaves some velocity field
any_velocity_field ==
    /\ pc = "moment_update"
    /\ \E fld \in Fields :
          /\ ux' = [cell \in Cells |-> Add(fld[1], R(fld[3] * cell[2]))]
          /\ uy' = [cell \in Cells |-> fld[2]]
    /\ pc' = "update_particles"
    /\ UNCHANGED <<it, error, masks, config, call, f, rho, f_eq, tracker>>

NextParticles ==
    \/ render
    \/ any_velocity_field
    \/ animate

SpecParticles == InitParticles /\ [][NextParticles]_vars

(* ------------------ the tracker with any centroid table ------------------ *)

\* the tables the module can be given in place of the one hard-coded "for
\* now": none at all, or the hard-coded one
CentroidTables == {<<>>, susceptible_centroids}

InitCentroids ==
    /\ pc = "render"
    /\ it = 0
    /\ error = NoError
    /\ \E m \in ParticleMaps : LoadMap(m)
    /\ map_scaling_factor = R(1)
    /\ particles = TRUE
    /\ outlet_handler = "LBM.outlet_handler"
    /\ nodes \in CentroidTables
    /\ call = [fn |-> "none", args |-> <<>>]
    /\ u_lb = init_default_u_lb
    /\ tau = init_default_tau
    /\ RestFluid
    /\ NoTracker

SpecCentroids == InitCentroids /\ [][NextParticles]_vars

(* ------------------------------- properties ------------------------------- *)

RECURSIVE SumUpTo(_, _)
\* g[0] + ... + g[n]
SumUpTo(g, n) == IF n < 0 THEN 0 ELSE g[n] + SumUpTo(g, n - 1)

Origin == <<R(0), R(0)>>

\* the infection events counted for particle i, over all centroids
InfectionsOf(i) ==
    SumUpTo([k \in 0 .. (NUM_SUSCEP_CENTROIDS - 1) |-> infections[k][i]],
            NUM_SUSCEP_CENTROIDS - 1)

TotalInfections ==
    SumUpTo([i \in 0 .. (ITERATIONS - 1) |-> InfectionsOf(i)], ITERATIONS - 1)

TotalRemoved == SumUpTo(removed, ITERATIONS - 1)

StillActive == {i \in 0 .. (particle_nr - 1) : i \notin particles_exited}

\* C1: a particle that is terminal (in particles_exited) before a step is
\* terminal after it, and the step changes neither its position nor any
\* infection or removed counter entry of it.
C1_TerminalIsFinal ==
    [][\A i \in particles_exited :
          /\ i \in particles_exited'
          /\ particle_locations'[i] = particle_locations[i]
          /\ removed'[i] = removed[i]
          /\ \A k \in 0 .. (NUM_SUSCEP_CENTROIDS - 1) :
                infections'[k][i] = infections[k][i]]_vars

\* Particle 0 is spawned on a susceptible cell in the call of iteration 0,
\* which intercepts it; at least two later calls have passed over it.
C1_Witness ==
    /\ infected \subseteq susceptible
    /\ it >= 3
    /\ 0 \in particles_exited
    /\ InfectionsOf(0) = 1

\* C2: after render, every spawned particle is either still active with no
\* counter entry, or terminal with exactly one counter entry (one infection
\* and no removal, or one removal and no infection); unspawned slots count
\* nothing; and infections + removals + active particles = particle_nr.
C2_LifecycleExclusive ==
    pc # "render" =>
        /\ \A i \in 0 .. (ITERATIONS - 1) :
              IF i < particle_nr /\ i \in particles_exited
              THEN \/ InfectionsOf(i) = 1 /\ removed[i] = 0
                   \/ InfectionsOf(i) = 0 /\ removed[i] = 1
              ELSE InfectionsOf(i) = 0 /\ removed[i] = 0
        /\ particles_exited \subseteq 0 .. (particle_nr - 1)
        /\ TotalInfections + TotalRemoved + Cardinality(StillActive) = particle_nr

\* all three lifecycle states are present at once
C2_Witness ==
    /\ pc = "done"
    /\ particle_nr = num_particles
    /\ TotalInfections >= 1
    /\ TotalRemoved >= 1

\* what the resolution order prescribes for an active particle i that the
\* call finds at position loc
Resolution(i, loc) ==
    IF RoundedCell(loc) \in susceptible
    THEN /\ i \in particles_exited'
         /\ InfectionsOf(i)' = InfectionsOf(i) + 1
         /\ removed'[i] = removed[i]
         /\ particle_locations'[i] \in {loc, Origin}
    ELSE IF RoundedCell(loc) \in outlet
    THEN /\ i \in particles_exited'
         /\ InfectionsOf(i)' = InfectionsOf(i)
         /\ removed'[i] = removed[i] + 1
         /\ particle_locations'[i] \in {loc, Origin}
    ELSE /\ i \notin particles_exited'
         /\ InfectionsOf(i)' = InfectionsOf(i)
         /\ removed'[i] = removed[i]
         /\ particle_locations'[i] = Advect(loc)

\* C3: in every call of update_particles, an active particle whose rounded
\* cell is susceptible is intercepted (also when the cell is an outlet too),
\* otherwise one whose rounded cell is an outlet exits with the removed
\* counter raised by one, otherwise it stays active at the advected position;
\* a particle that becomes terminal is not moved by the velocity.  A particle
\* spawned by the call is resolved the same way from its infected cell.
C3_ResolutionOrder ==
    [][pc = "update_particles" /\ particles =>
          /\ \A i \in StillActive : Resolution(i, particle_locations[i])
          /\ \A i \in particle_nr .. (particle_nr' - 1) :
                \E cell \in infected : Resolution(i, <<R(cell[1]), R(cell[2])>>)]_vars

\* a particle was intercepted on a cell that is susceptible and outlet
C3_Witness ==
    /\ susceptible # {}
    /\ susceptible = outlet
    /\ \E i \in particles_exited : InfectionsOf(i) = 1 /\ removed[i] = 0

\* C10 as stated: a particle that a call makes terminal keeps the position
\* it had when the call found it.
C10_FrozenWhereItStopped ==
    [][\A i \in particles_exited' \ particles_exited :
          i < particle_nr => particle_locations'[i] = particle_locations[i]]_vars

\* C10, amended: a terminal particle is at [0, 0], from the call that made
\* it terminal on.
C10_TerminalAtOrigin ==
    \A i \in particles_exited : particle_locations[i] = Origin

\* a particle left through an outlet cell, which is never the cell (0, 0)
C10_Witness ==
    /\ <<0, 0>> \notin outlet
    /\ \E i \in particles_exited : removed[i] = 1 /\ particle_locations[i] = Origin

\* C4 as stated: the field update_particles samples is the moments of f as
\* the boundary handlers of the same iteration left it.
C4_FieldIsCurrent ==
    pc = "update_particles" /\ particles =>
        \A cell \in Cells :
            /\ ux[cell] = CellUx(f[cell])
            /\ uy[cell] = CellUy(f[cell])

\* C5 as stated: each handler is called with the model and the iteration
\* index, so that an outlet handler declared (model, it) runs.
C5_HandlersCalledWithIteration ==
    /\ pc = "outlet_handler" /\ call.fn = "inlet_handler" =>
          call.args = <<"self", it>>
    /\ pc = "update_particles" /\ call.fn = "outlet_handler" =>
          call.args = <<"self", it>>
    /\ error.type # "TypeError"

\* C6: the iteration starts by leaving f alone; the equilibrium step leaves
\* f, the particles and the handlers alone, aborts exactly when some entry of
\* the fresh f_eq is not >= 0, and then reports the position of such an
\* entry; nothing runs after an abort.
C6_AbortBeforeCollision ==
    [][/\ pc # "aborted"
       /\ pc = "moment_update" => f' = f
       /\ pc = "equilibrium" =>
             /\ f' = f
             /\ UNCHANGED <<it, call, tracker>>
             /\ pc' \in {"aborted", "collision"}
             /\ pc' = "aborted" <=>
                   \E loc \in Locs : ~Geq(f_eq'[loc[1]][loc[2]], R(0))
             /\ pc' = "aborted" =>
                   /\ error'.type = "AssertionError"
                   /\ error'.at \in Locs
                   /\ ~Geq(f_eq'[error'.at[1]][error'.at[2]], R(0))]_vars

\* the run was aborted in an iteration that had particles to update
C6_Witness ==
    /\ pc = "aborted"
    /\ error.type = "AssertionError"
    /\ particles
    /\ particle_nr > 0
    /\ Less(f_eq[error.at[1]][error.at[2]], R(0))

\* C7 as stated: between iterations every population of f is >= 0.
C7_NonNegative ==
    pc \in {"moment_update", "done"} =>
        \A loc \in Locs : Geq(f[loc[1]][loc[2]], R(0))

RECURSIVE SumCells(_, _)
\* the sum of the densities of ff over the cells of S
SumCells(ff, S) ==
    IF S = {} THEN R(0)
    ELSE LET cell == CHOOSE x \in S : TRUE
         IN  Add(CellRho(ff[cell]), SumCells(ff, S \ {cell}))

TotalMass(ff) == SumCells(ff, Cells)

\* C8: without inlet and outlet cells no step of lbm_iteration changes the
\* total of all populations, whatever the wall mask; collision and
\* bounce-back keep the sum of every single cell.
C8_MassConserved ==
    [][inlet = {} /\ outlet = {} =>
          /\ TotalMass(f') = TotalMass(f)
          /\ pc \in {"collision", "bounce_back"} =>
                \A cell \in Cells : CellRho(f'[cell]) = CellRho(f[cell])]_vars

\* an iteration has completed on a walled map without inlet and outlet whose
\* fluid is not uniform
C8_Witness ==
    /\ pc = "done"
    /\ inlet = {}
    /\ outlet = {}
    /\ wall # {}
    /\ \E c1 \in Cells, c2 \in Cells : CellRho(f[c1]) # CellRho(f[c2])
    /\ \E c1 \in Cells : CellUx(f[c1]) # R(0)

\* the direction whose offset vector is the negative of c[i]
Opposite(i) == CHOOSE j \in Dirs : cx(j) = -cx(i) /\ cy(j) = -cy(i)

\* C9: opp is an involution that reverses every offset vector; the
\* bounce-back step gives every wall cell its own populations permuted by
\* the geometric opposite and the velocity (0, 0), and leaves the populations
\* of the other cells as they are.
C9_BounceBack ==
    [][/\ \A i \in Dirs :
             /\ opp(opp(i)) = i
             /\ cx(opp(i)) = -cx(i)
             /\ cy(opp(i)) = -cy(i)
       /\ pc = "bounce_back" =>
             \A cell \in Cells :
                 IF cell \in wall
                 THEN /\ \A i \in Dirs : f'[cell][i] = f[cell][Opposite(i)]
                      /\ ux'[cell] = R(0)
                      /\ uy'[cell] = R(0)
                 ELSE f'[cell] = f[cell]]_vars

\* the bounce-back has just reflected a wall cell whose populations are not
\* symmetric and whose velocity was not zero
C9_Witness ==
    /\ pc = "inlet_handler"
    /\ \E cell \in wall :
          /\ f[cell][1] # f[cell][3]
          /\ f[cell][5] # f[cell][7]
          /\ CellRho(f[cell]) # R(0)
          /\ CellUx(f[cell]) # R(0)

\* the smaller of two integers
Least(a, b) == IF a < b THEN a ELSE b

\* where the call leaves a particle it has just placed on cell
AfterPlacement(cell) ==
    LET loc == <<R(cell[1]), R(cell[2])>>
    IN  IF RoundedCell(loc) \in susceptible \cup outlet THEN Origin ELSE Advect(loc)

\* C11: a call of update_particles raises particle_nr by spawn_amount_at_rate
\* (or by what is left below the cap num_particles) when it % spawn_rate = 0
\* and leaves it alone otherwise; particle_nr never exceeds num_particles;
\* every particle spawned was placed on an infected cell (and resolved from
\* there by the same call); the slots from particle_nr on and the size of
\* particle_locations are not written.
C11_SpawnPolicy ==
    [][pc = "update_particles" /\ particles /\ pc' # "aborted" =>
          /\ particle_nr' =
                 IF it % spawn_rate = 0
                 THEN Least(particle_nr + spawn_amount_at_rate, num_particles)
                 ELSE particle_nr
          /\ particle_nr <= num_particles
          /\ particle_nr' <= num_particles
          /\ \A i \in particle_nr .. (particle_nr' - 1) :
                \E cell \in infected : particle_locations'[i] = AfterPlacement(cell)
          /\ DOMAIN particle_locations' = 0 .. (num_particles - 1)
          /\ \A i \in particle_nr' .. (num_particles - 1) :
                particle_locations'[i] = Origin]_vars

\* the run is over, the cap was reached, and the last iteration was one on
\* which the cadence asked for a spawn that the cap refused
C11_Witness ==
    /\ pc = "done"
    /\ particles
    /\ particle_nr = num_particles
    /\ (ITERATIONS - 1) % spawn_rate = 0
    /\ ((ITERATIONS - 1) \div spawn_rate) * spawn_amount_at_rate >= num_particles

\* C12 as stated: an interception is never dropped; every particle the
\* tracker has made terminal is recorded by some counter (the code keeps no
\* counters but infections and removed).
C12_InterceptionRecorded ==
    \A i \in particles_exited :
        \/ removed[i] > 0
        \/ \E k \in DOMAIN infections : infections[k][i] > 0

\* squared Euclidean distance of centroid k to the position loc itself
TrueDist2(loc, k) ==
    LET ddx == Sub(R(nodes[k + 1][1]), loc[1])
        ddy == Sub(R(nodes[k + 1][2]), loc[2])
    IN  Add(Mul(ddx, ddx), Mul(ddy, ddy))

\* the first centroid at the smallest distance from loc
Nearest(loc) ==
    CHOOSE k \in 0 .. (Len(nodes) - 1) :
        /\ \A j \in 0 .. (Len(nodes) - 1) : ~Less(TrueDist2(loc, j), TrueDist2(loc, k))
        /\ \A j \in 0 .. (k - 1) : Less(TrueDist2(loc, k), TrueDist2(loc, j))

\* C13 as stated: when a call intercepts an active particle found at loc, the
\* infection counter of the centroid nearest to loc (first one on ties) goes
\* up by one for it, and its other infection counters and its removed
\* counter stay as they are.
C13_NearestCentroid ==
    [][pc = "update_particles" /\ particles =>
          \A i \in StillActive :
              RoundedCell(particle_locations[i]) \in susceptible =>
                  /\ \A k \in 0 .. (Len(nodes) - 1) :
                        infections'[k][i] =
                            infections[k][i] +
                                (IF k = Nearest(particle_locations[i]) THEN 1 ELSE 0)
                  /\ removed'[i] = removed[i]]_vars

\* C14: every particle position, spawned or not, lies in [0, width - 1] x
\* [0, height - 1], and the cell it rounds to is a cell of the grid.
C14_InsideDomain ==
    \A i \in DOMAIN particle_locations :
        /\ Geq(particle_locations[i][1], R(0))
        /\ Geq(R(width - 1), particle_locations[i][1])
        /\ Geq(particle_locations[i][2], R(0))
        /\ Geq(R(height - 1), particle_locations[i][2])
        /\ RoundedCell(particle_locations[i]) \in Cells

\* a particle spawned inside the grid sits on the left edge after a call
\* whose velocity field pointed out of the grid there
C14_Witness ==
    /\ pc \in {"moment_update", "done"}
    /\ infected = {<<1, 1>>}
    /\ Less(ux[<<0, 0>>], R(0))
    /\ \E i \in StillActive : particle_locations[i][1] = R(0)

\* C15: the phases of an iteration follow one another in the order moment
\* update, equilibrium with its check, collision, streaming, bounce-back,
\* inlet handler, outlet handler, update_particles (a phase that raises ends
\* the run instead); the particles are touched by update_particles alone and
\* the moments rho by the moment update alone; after the handlers an outlet
\* cell holds what the outlet handler wrote and every other inlet cell, wall
\* or not, what the inlet handler wrote; and neither update_particles nor
\* the moment update of the next iteration changes f.
C15_PhaseOrder ==
    [][/\ pc = "moment_update" => pc' = "equilibrium" /\ f' = f
       /\ pc = "equilibrium" => pc' \in {"collision", "aborted"} /\ f' = f
       /\ pc = "collision" => pc' = "streaming"
       /\ pc = "streaming" => pc' = "bounce_back"
       /\ pc = "bounce_back" => pc' = "inlet_handler"
       /\ pc = "inlet_handler" => pc' = "outlet_handler"
       /\ pc = "outlet_handler" => pc' \in {"update_particles", "aborted"}
       /\ pc = "update_particles" =>
             /\ pc' \in {"moment_update", "done", "aborted"}
             /\ pc' = "moment_update" <=> (it' = it + 1 /\ it' < ITERATIONS)
             /\ f' = f
       /\ pc \in {"done", "aborted"} => pc' = pc
       /\ pc \notin {"update_particles", "render"} => UNCHANGED tracker
       /\ pc # "moment_update" => rho' = rho
       /\ pc = "outlet_handler" /\ pc' = "update_particles" =>
             \A cell \in Cells :
                 f'[cell] =
                     IF cell \in outlet
                     THEN get_equilibrium(rho[cell], ux[cell], uy[cell])
                     ELSE IF cell \in inlet
                     THEN get_equilibrium(R(1), u_lb, R(0))
                     ELSE f[cell]]_vars

\* iteration 1 has begun on a map with a wall cell and an outlet cell among
\* its inlet cells: the wall cell holds the inlet distribution, the outlet
\* cell the outlet distribution, as iteration 0 left them
C15_Witness ==
    /\ it = 1
    /\ pc = "equilibrium"
    /\ \E cell \in (wall \cap inlet) \ outlet :
          /\ f[cell] = get_equilibrium(R(1), u_lb, R(0))
          /\ f[cell] # Reflect(f[cell])
    /\ \E cell \in inlet \cap outlet :
          f[cell] = get_equilibrium(R(1), R(0), R(0))

====
